---- MODULE Spec2Model ----
(***************************************************************************)
(* The checkpoint utility "flow": three variants of one program.           *)
(*   "single"      src/flow.py           terminal only, substring finish   *)
(*   "continuous"  src/new_flow/flow.py  editor, never finishes, backup    *)
(*   "old"         src/old_flow/flow.py  editor, whole-word finish         *)
(* A string is a sequence of one-character strings, so that strip, lower,  *)
(* substring search and the word-boundary match are computed character by  *)
(* character, as the interpreter computes them.                            *)
(***************************************************************************)
EXTENDS Integers, Sequences, FiniteSets, TLC

VARIABLES variant, pc, user_input, current_content, sysBound, result, choiceLine, action, log_entry, saveCall, logs,
          response, exitCode, trace,
          logFile, backupFile, now, runs, saveHist, initLog

vars == <<variant, pc, user_input, current_content, sysBound, result, choiceLine, action, log_entry, saveCall, logs,
          response, exitCode, trace,
          logFile, backupFile, now, runs, saveHist, initLog>>

\* ------------------------------------------------------------- bounds
\* Processes (program invocations that may exist side by side).
NProcs == 2
\* Invocations of the program, one after the other, over the same log file.
MaxRuns == 3
\* Pieces concatenated into an instruction handed to process_input.
MaxPieces == 3

Procs == 1..NProcs

Variants == {"single", "continuous", "old"}

\* ------------------------------------------------------------ strings
UpperChars ==
    <<"A","B","C","D","E","F","G","H","I","J","K","L","M",
      "N","O","P","Q","R","S","T","U","V","W","X","Y","Z">>

LowerChars ==
    <<"a","b","c","d","e","f","g","h","i","j","k","l","m",
      "n","o","p","q","r","s","t","u","v","w","x","y","z">>

DigitChars == {"0","1","2","3","4","5","6","7","8","9"}

Range(f) == {f[i] : i \in DOMAIN f}

\* str.lower() on one character.
LowerChar(c) ==
    IF c \in Range(UpperChars)
    THEN LowerChars[CHOOSE i \in 1..26 : UpperChars[i] = c]
    ELSE c

\* str.lower()
LowerStr(s) == [i \in 1..Len(s) |-> LowerChar(s[i])]

\* The characters str.strip() removes.
IsSpace(c) == c \in {" ", "\t", "\n", "\r"}

\* The characters the regular expression class \w matches.
IsWordChar(c) == c \in Range(UpperChars) \cup Range(LowerChars) \cup DigitChars \cup {"_"}

\* str.strip()
Strip(s) ==
    LET keep == {i \in 1..Len(s) : ~IsSpace(s[i])}
    IN  IF keep = {} THEN <<>>
        ELSE LET first == CHOOSE i \in keep : \A j \in keep : i <= j
                 last  == CHOOSE i \in keep : \A j \in keep : j <= i
             IN  SubSeq(s, first, last)

\* Whether sub occurs in s at the 0-based offset i.
OccursAt(s, sub, i) ==
    /\ i >= 0
    /\ i + Len(sub) <= Len(s)
    /\ SubSeq(s, i + 1, i + Len(sub)) = sub

\* str.find(): the lowest offset of sub in s, or -1.
Find(s, sub) ==
    LET hits == {i \in 0..Len(s) : OccursAt(s, sub, i)}
    IN  IF hits = {} THEN -1
        ELSE CHOOSE i \in hits : \A j \in hits : i <= j

\* The operator "sub in s" on strings.
Contains(s, sub) == Find(s, sub) # -1

\* The slice s[a:b] for offsets 0 <= a, 0 <= b.
Slice(s, a, b) ==
    LET hi == IF b < Len(s) THEN b ELSE Len(s)
    IN  IF a >= hi THEN <<>> ELSE SubSeq(s, a + 1, hi)

\* The regular expression assertion \b at offset i of s: exactly one of the
\* characters before and after the offset is a word character.
WordBoundaryAt(s, i) ==
    LET before == i >= 1 /\ IsWordChar(s[i])
        after  == i < Len(s) /\ IsWordChar(s[i + 1])
    IN  before # after

\* re.search(r'\b' + re.escape(keyword) + r'\b', s) finds a match.
ReSearchWord(keyword, s) ==
    \E i \in 0..Len(s) :
        /\ WordBoundaryAt(s, i)
        /\ OccursAt(s, keyword, i)
        /\ WordBoundaryAt(s, i + Len(keyword))

\* ------------------------------------------------------- the classifier
KwDone == <<"d","o","n","e">>
KwFinish == <<"f","i","n","i","s","h">>
KwEnd == <<"e","n","d">>
KwComplete == <<"c","o","m","p","l","e","t","e">>
KwStop == <<"s","t","o","p">>
KwExit == <<"e","x","i","t">>
KwQuit == <<"q","u","i","t">>
KwHelp == <<"h","e","l","p">>

\* finish_keywords of src/flow.py.
FinishKeywordsSingle == {KwDone, KwFinish, KwEnd, KwComplete, KwStop, KwExit, KwQuit}

\* finish_keywords of src/old_flow/flow.py.
FinishKeywordsOld == {KwDone, KwFinish}

\* gui_keywords: the inputs that open the editor.
GuiKeywords == { <<"g","u","i">>, <<"e","d","i","t">>, <<"e","d","i","t","o","r">> }

\* input_lower = user_input.lower().strip()
NormalizeNoLower(s) == Strip(s)

Normalize(s) == Strip(LowerStr(s))

\* 'help' in input_lower
HelpRuleWholeWord(input_lower) == ReSearchWord(KwHelp, input_lower)

HelpRule(input_lower) == Contains(input_lower, KwHelp)

\* any(keyword in input_lower for keyword in finish_keywords)
FinishRuleSingle(input_lower) ==
    \E keyword \in FinishKeywordsSingle : Contains(input_lower, keyword)

\* The loop over finish_keywords with re.search and word boundaries.
FinishRuleOldSubstring(input_lower) ==
    \E keyword \in FinishKeywordsOld : Contains(input_lower, keyword)

FinishRuleOld(input_lower) ==
    \E keyword \in FinishKeywordsOld : ReSearchWord(keyword, input_lower)

\* process_input of src/flow.py: the finish keywords are looked for first.
ProcessInputSingleHelpFirst(s) ==
    LET input_lower == Normalize(s)
    IN  IF HelpRule(input_lower) THEN "help"
        ELSE IF FinishRuleSingle(input_lower) THEN "finish"
        ELSE "continue"

ProcessInputSingle(s) ==
    LET input_lower == Normalize(s)
    IN  IF FinishRuleSingle(input_lower) THEN "finish"
        ELSE IF HelpRule(input_lower) THEN "help"
        ELSE "continue"

\* process_input of src/new_flow/flow.py: there is no finish rule.
ProcessInputContinuousWithFinish(s) == ProcessInputSingle(s)

ProcessInputContinuous(s) ==
    LET input_lower == Normalize(s)
    IN  IF HelpRule(input_lower) THEN "help" ELSE "continue"

\* process_input of src/old_flow/flow.py.
ProcessInputOld(s) ==
    LET input_lower == Normalize(s)
    IN  IF FinishRuleOld(input_lower) THEN "finish"
        ELSE IF HelpRule(input_lower) THEN "help"
        ELSE IF input_lower \in GuiKeywords THEN "continue"
        ELSE "continue"

\* process_input of the variant v.
Classify(v, s) ==
    CASE v = "single"     -> ProcessInputSingle(s)
      [] v = "continuous" -> ProcessInputContinuous(s)
      [] v = "old"        -> ProcessInputOld(s)

\* The variants whose get_user_input can open the editor.
HasEditor(v) == v \in {"continuous", "old"}

\* The variants whose save_session_log writes a backup file.
HasBackup(v) == v = "continuous"

\* --------------------------------------------------------------- values
NoString == <<>>

NoEntry == [timestamp |-> 0, action |-> "none", user_input |-> NoString]

NoResponse == [template |-> "none", parts |-> <<>>]

\* What one call of save_session_log met and did: the log file as the call
\* found it, the input/output errors raised, the writes attempted.
NoCall ==
    [before |-> [kind |-> "absent", entries |-> <<>>],
     readFault |-> FALSE, writeFault |-> FALSE, backupFault |-> FALSE,
     primaryWrites |-> 0, backupWrites |-> 0]

\* The local name result of get_user_input before subprocess.run has
\* returned in the current call.
NoResult == [kind |-> "none", returncode |-> 0, stdout |-> <<>>, arg |-> <<>>]

\* The line read at the accept/edit prompt; none while the prompt waits.
NoLine == [read |-> FALSE, line |-> <<>>]

\* The exit status of a process that has not ended.
Running == -1

\* A file of the log directory: absent, text that is no JSON document (zero
\* bytes, a truncated array), or a JSON array of entries.
AbsentFile == [kind |-> "absent", entries |-> <<>>]

GarbageFile == [kind |-> "garbage", entries |-> <<>>]

ArrayFile(es) == [kind |-> "array", entries |-> es]

\* The log file before the first invocation: absent, or what an earlier
\* invocation can leave behind.
InitFiles == {AbsentFile, GarbageFile, ArrayFile(<<>>)}

\* The string the interrupt handlers of get_user_input return.
InterruptInstruction == <<"f","i","n","i","s","h">>

\* What the user types at the instruction prompt.
TermLines ==
    { <<>>, <<" "," ">>, <<"d","o","n","e">>, <<"h","e","l","p">>, <<" ","F","i","x"," ","i","t"," ">>, <<"G","U","I">> }

\* What the user types at the accept/edit prompt.
ChoiceLines == { <<>>, <<" ","E","d","i","t"," ">>, <<"o","k">> }

MarkerStart == <<"G","U","I","_","R","E","S","U","L","T","_","S","T","A","R","T">>

MarkerEnd == <<"G","U","I","_","R","E","S","U","L","T","_","E","N","D">>

MarkerCancelled == <<"G","U","I","_","R","E","S","U","L","T","_","C","A","N","C","E","L","L","E","D">>

Newline == <<"\n">>

\* A text of two lines.
HelloWorld == <<"H","e","l","l","o","\n","w","o","r","l","d">>

\* What the user leaves in the editor's text area: plain text, blanks, and
\* texts that hold the text of a marker.
EditorTexts ==
    { HelloWorld, <<" "," ">>, MarkerCancelled, HelloWorld \o <<" ">> \o MarkerEnd }

\* ------------------------------------------------- the editor subprocess
\* StandaloneGUI.submit: the standard output after a submit of the text area;
\* nothing is printed for an empty text area and the window stays open.
SubmitPrints(text) == Strip(text) # <<>>

HelperSubmit(text) ==
    MarkerStart \o Newline \o Strip(text) \o Newline \o MarkerEnd \o Newline

\* StandaloneGUI.cancel: the standard output after a cancel.
HelperCancel == MarkerCancelled \o Newline

\* The standard outputs a helper run can end with.
EditorStdouts ==
    {HelperSubmit(t) : t \in {x \in EditorTexts : SubmitPrints(x)}} \cup
    {HelperCancel,
     MarkerStart \o Newline \o <<" ">> \o Newline \o MarkerEnd \o Newline,
     MarkerEnd \o Newline \o MarkerStart \o Newline,
     <<"T","r","a","c","e","b","a","c","k">> }

\* subprocess.run: it returns a completed process, or raises.
EditorResults(v) ==
    [kind : {"exit"}, returncode : {0}, stdout : EditorStdouts]
    \cup [kind : {"exit"}, returncode : {1}, stdout : {<<>>, HelperSubmit(HelloWorld)}]
    \cup [kind : {"raise"}, returncode : {0}, stdout : {<<>>}]
    \cup (IF v = "old" THEN [kind : {"timeout"}, returncode : {0}, stdout : {<<>>}] ELSE {})

Break == [kind |-> "break", content |-> <<>>]

\* if result.returncode == 0
ExitedCleanlyAny(r) == TRUE

ExitedCleanly(r) == r.returncode = 0

\* if content
HasContentAlways(content) == TRUE

HasContent(content) == content # <<>>

\* start_idx: the offset after the first GUI_RESULT_START of the output.
ContentStartAtMarker(output) == Find(output, MarkerStart)

ContentStart(output) == Find(output, MarkerStart) + Len(MarkerStart)

\* The parse of a completed editor run: the content to offer, or a break out
\* of the editing loop.
ParseEditor(r) ==
    IF r.kind # "exit" THEN Break
    ELSE IF ~ExitedCleanly(r) THEN Break
    ELSE LET output == Strip(r.stdout)
         IN  IF Contains(output, MarkerCancelled) THEN Break
             ELSE IF Contains(output, MarkerStart) /\ Contains(output, MarkerEnd)
                  THEN LET start_idx == ContentStart(output)
                           end_idx == Find(output, MarkerEnd)
                           content == Strip(Slice(output, start_idx, end_idx))
                       IN  IF HasContent(content)
                           THEN [kind |-> "content", content |-> content]
                           ELSE Break
                  ELSE Break

\* ParseEditor of the helper runs of EditorResults, worked out once: the
\* pairs of a run and its parse.
ParseTable == {<<r, ParseEditor(r)>> : r \in UNION {EditorResults(v) : v \in Variants}}

\* The parse of the completed run r, whatever else the record holds.
Parsed(r) ==
    LET run == [kind |-> r.kind, returncode |-> r.returncode, stdout |-> r.stdout]
    IN  IF \E entry \in ParseTable : entry[1] = run
        THEN (CHOOSE entry \in ParseTable : entry[1] = run)[2]
        ELSE ParseEditor(r)

\* ------------------------------------------------------------ the logger
\* json.load of the file (single, old), or json.loads of its stripped text
\* with an empty text and a decode error read as an empty list (continuous).
ParseLog(v, file) ==
    CASE file.kind = "array" -> [ok |-> TRUE, logs |-> file.entries]
      [] file.kind = "garbage" ->
             IF v = "continuous" THEN [ok |-> TRUE, logs |-> <<>>]
             ELSE [ok |-> FALSE, logs |-> <<>>]

\* The existence test and the read of the log file.
ReadLog(v, file) ==
    IF file.kind = "absent" THEN [ok |-> TRUE, logs |-> <<>>] ELSE ParseLog(v, file)

\* logs.append(log_entry)
AppendEntryFirst(ls, e) == <<e>> \o ls

AppendEntry(ls, e) == Append(ls, e)

\* Where save_session_log goes when its try block raises.
AfterSaveFailureRaise(v) == "raise"

AfterSaveFailure(v) == IF HasBackup(v) THEN "backup" ELSE "respond"

\* What open(path, 'w') followed by json.dump can do to the file.
WriteOutcomes == {"ok", "open-error", "dump-error"}

WriteResult(file, outcome, es) ==
    CASE outcome = "ok"                 -> ArrayFile(es)
      [] outcome = "open-error"         -> file
      [] outcome = "dump-error"         -> GarbageFile

\* -------------------------------------------------- the response generator
\* generate_response: an f-string, as the sequence of its fixed texts and of
\* the places where the instruction is formatted in.
Text(t) == [lit |-> t, val |-> <<>>]

Input(s) == [lit |-> "{user_input}", val |-> s]

\* The template of the continue branch without its second placeholder.
ContinueTemplateNoRequest(s) ==
    <<Text("CONTINUING SESSION"), Text("User wants to continue with: "), Input(s),
      Text("===== NEXT STEPS ====="), Text("Please implement the following request:"),
      Text("Continue working on this task and run the flow again")>>

ContinueTemplate(s) ==
    <<Text("CONTINUING SESSION"), Text("User wants to continue with: "), Input(s),
      Text("===== NEXT STEPS ====="), Text("Please implement the following request:"),
      Input(s), Text("Continue working on this task and run the flow again")>>

\* The template of the continue branch of src/new_flow/flow.py.
ContinuousTemplate(s) ==
    <<Text("CONTINUING ITERATION"), Text("===== EXECUTION REQUIRED ====="),
      Text("Please implement the following request:"), Input(s),
      Text("CRITICAL: After completing the above tasks, you MUST run: python flow.py"),
      Text("DO NOT conclude or finish the session")>>

\* The template of the finish branch without its placeholder.
FinishTemplateNoInstruction(s) ==
    <<Text("SESSION ENDING"), Text("User has chosen to finish the session."),
      Text("Final instruction: "),
      Text("===== SUMMARY REQUEST ====="),
      Text("Please provide a comprehensive summary of:"),
      Text("1. What was accomplished in this session"),
      Text("2. Files created or modified"),
      Text("3. Key features implemented"),
      Text("4. Any remaining tasks or suggestions")>>

FinishTemplate(s) ==
    <<Text("SESSION ENDING"), Text("User has chosen to finish the session."),
      Text("Final instruction: "), Input(s),
      Text("===== SUMMARY REQUEST ====="),
      Text("Please provide a comprehensive summary of:"),
      Text("1. What was accomplished in this session"),
      Text("2. Files created or modified"),
      Text("3. Key features implemented"),
      Text("4. Any remaining tasks or suggestions")>>

GenerateResponse(v, a, s) ==
    CASE a = "finish" /\ v # "continuous" ->
             [template |-> "finish", parts |-> FinishTemplate(s)]
      [] a = "continue" /\ v # "continuous" ->
             [template |-> "continue", parts |-> ContinueTemplate(s)]
      [] a = "continue" /\ v = "continuous" ->
             [template |-> "continue", parts |-> ContinuousTemplate(s)]
      [] OTHER ->
             [template |-> "else", parts |-> <<Text("Help information displayed to user.")>>]

\* ------------------------------------------------------------- the state
Event(p, e) == [trace EXCEPT ![p] = Append(@, e)]

\* The state of a process at its start.
Fresh(p) ==
    /\ pc' = [pc EXCEPT ![p] = "start"]
    /\ user_input' = [user_input EXCEPT ![p] = NoString]
    /\ current_content' = [current_content EXCEPT ![p] = NoString]
    /\ sysBound' = [sysBound EXCEPT ![p] = FALSE]
    /\ result' = [result EXCEPT ![p] = NoResult]
    /\ choiceLine' = [choiceLine EXCEPT ![p] = NoLine]
    /\ action' = [action EXCEPT ![p] = "none"]
    /\ log_entry' = [log_entry EXCEPT ![p] = NoEntry]
    /\ saveCall' = [saveCall EXCEPT ![p] = NoCall]
    /\ logs' = [logs EXCEPT ![p] = <<>>]
    /\ response' = [response EXCEPT ![p] = NoResponse]
    /\ exitCode' = [exitCode EXCEPT ![p] = Running]
    /\ trace' = [trace EXCEPT ![p] = <<>>]

InitLocals ==
    /\ current_content = [p \in Procs |-> NoString]
    /\ sysBound = [p \in Procs |-> FALSE]
    /\ result = [p \in Procs |-> NoResult]
    /\ choiceLine = [p \in Procs |-> NoLine]
    /\ action = [p \in Procs |-> "none"]
    /\ log_entry = [p \in Procs |-> NoEntry]
    /\ saveCall = [p \in Procs |-> NoCall]
    /\ logs = [p \in Procs |-> <<>>]
    /\ response = [p \in Procs |-> NoResponse]
    /\ exitCode = [p \in Procs |-> Running]
    /\ trace = [p \in Procs |-> <<>>]

InitFilesystem ==
    /\ logFile \in InitFiles
    /\ initLog = logFile
    /\ backupFile = AbsentFile
    /\ now = 1
    /\ runs = 1
    /\ saveHist = [clean |-> TRUE, entries |-> <<>>]

\* One invocation after the other of one variant, over one log directory.
Init ==
    /\ variant \in Variants
    /\ pc = [p \in Procs |-> IF p = 1 THEN "start" ELSE "idle"]
    /\ user_input = [p \in Procs |-> NoString]
    /\ InitLocals
    /\ InitFilesystem

procVars == <<pc, user_input, current_content, sysBound, result, choiceLine, action, log_entry, saveCall, logs,
              response, exitCode, trace>>

fileVars == <<logFile, backupFile, now, saveHist>>

\* ------------------------------------------------------- get_user_input
\* Whether the local name sys of get_user_input is bound in the current call.
SysIsBound(p) == sysBound[p]

\* user_input = input(...).strip()
TermStripNone(line) == line

TermStrip(line) == Strip(line)

\* main: print_banner, then the first call of get_user_input.
PrintBanner(p) ==
    /\ pc[p] = "start"
    /\ pc' = [pc EXCEPT ![p] = "prompt"]
    /\ UNCHANGED <<variant, sysBound, result, choiceLine, user_input, current_content, action, log_entry, saveCall, logs,
                   response, exitCode, trace, fileVars, runs, initLog>>

\* current_content = "": what the editing loop entered from the instruction
\* prompt starts with.
InitialContentKept(p) == current_content[p]

InitialContent(p) == <<>>

\* get_user_input: one pass of the input loop with a line read from the
\* terminal: an empty line asks again, an editor keyword opens the editor,
\* any other line is returned. The editing loop starts with "import
\* subprocess" and "import sys", which bind the function's local name sys.
ReadLine(p) ==
    /\ pc[p] = "prompt"
    /\ \E line \in TermLines :
         LET u == TermStrip(line)
         IN  IF u = <<>>
             THEN UNCHANGED <<pc, user_input, current_content, sysBound>>
             ELSE IF HasEditor(variant) /\ LowerStr(u) \in GuiKeywords
             THEN /\ pc' = [pc EXCEPT ![p] = "editor"]
                  /\ current_content' = [current_content EXCEPT ![p] = InitialContent(p)]
                  /\ sysBound' = [sysBound EXCEPT ![p] = TRUE]
                  /\ UNCHANGED user_input
             ELSE /\ pc' = [pc EXCEPT ![p] = "classify"]
                  /\ user_input' = [user_input EXCEPT ![p] = u]
                  /\ UNCHANGED <<current_content, sysBound>>
    /\ UNCHANGED <<variant, result, choiceLine, action, log_entry, saveCall, logs, response, exitCode, trace,
                   fileVars, runs, initLog>>

\* The variants whose interrupt handlers call sys.exit(0) instead of
\* returning "finish".
InterruptExitsAlways(v) == TRUE

InterruptExits(v) == v = "continuous"

\* The handlers of KeyboardInterrupt and EOFError around the input loop:
\* return "finish" (single, old) or sys.exit(0) (continuous). The "import
\* sys" of the editing loop makes sys a local name of get_user_input: in a
\* call that has not opened the editor the name is unbound, sys.exit(0)
\* raises UnboundLocalError, and that goes to main's handler.
InterruptHandler(p) ==
    IF InterruptExits(variant)
    THEN /\ IF SysIsBound(p)
            THEN /\ pc' = [pc EXCEPT ![p] = "done"]
                 /\ exitCode' = [exitCode EXCEPT ![p] = 0]
            ELSE /\ pc' = [pc EXCEPT ![p] = "raise"]
                 /\ UNCHANGED exitCode
         /\ UNCHANGED user_input
    ELSE /\ pc' = [pc EXCEPT ![p] = "classify"]
         /\ user_input' = [user_input EXCEPT ![p] = InterruptInstruction]
         /\ UNCHANGED exitCode

\* A terminal interrupt while the process waits: at the instruction prompt,
\* for the editor subprocess, or at the accept/edit prompt.
KeyboardInterrupt(p) ==
    /\ pc[p] \in {"prompt", "editor", "choice"}
    /\ InterruptHandler(p)
    /\ UNCHANGED <<variant, sysBound, result, choiceLine, current_content, action, log_entry, saveCall, logs, response,
                   trace, fileVars, runs, initLog>>

\* End of input. At the instruction prompt the outer handler takes it; at the
\* accept/edit prompt EOFError is an Exception, which the handler around the
\* editor run catches first: the editing loop is left for the prompt.
EndOfInput(p) ==
    /\ pc[p] \in {"prompt", "choice"}
    /\ IF pc[p] = "prompt"
       THEN InterruptHandler(p)
       ELSE /\ pc' = [pc EXCEPT ![p] = "prompt"]
            /\ UNCHANGED <<user_input, exitCode>>
    /\ UNCHANGED <<variant, sysBound, result, choiceLine, current_content, action, log_entry, saveCall, logs, response,
                   trace, fileVars, runs, initLog>>

\* input() at the instruction prompt raises another exception (a closed or
\* undecodable standard input): no handler of get_user_input takes it.
PromptError(p) ==
    /\ pc[p] = "prompt"
    /\ pc' = [pc EXCEPT ![p] = "raise"]
    /\ UNCHANGED <<variant, sysBound, result, choiceLine, user_input, current_content, action, log_entry, saveCall, logs,
                   response, exitCode, trace, fileVars, runs, initLog>>

\* One pass of the editing loop, first half: subprocess.run starts the helper
\* with current_content as its argument and waits for it to end.
RunEditor(p) ==
    /\ pc[p] = "editor"
    /\ \E r \in EditorResults(variant) :
         result' = [result EXCEPT ![p] =
                       [kind |-> r.kind, returncode |-> r.returncode,
                        stdout |-> r.stdout, arg |-> current_content[p]]]
    /\ pc' = [pc EXCEPT ![p] = "parse"]
    /\ UNCHANGED <<variant, sysBound, choiceLine, user_input, current_content, action, log_entry,
                   saveCall, logs, response, exitCode, trace, fileVars, runs, initLog>>

\* Where get_user_input goes after a break out of the editing loop: the
\* "continue" of the input loop, back to the instruction prompt.
AfterBreakReturn == "classify"

AfterBreakReopen == "editor"

AfterBreak == "prompt"

\* Where the editing loop goes when subprocess.run raises: the handlers of
\* TimeoutExpired (old) and of Exception print a warning and break.
ExceptionHandlerNone(kind) == "raise"

ExceptionHandler(kind) == AfterBreak

\* One pass of the editing loop, second half: the parse of what the helper
\* printed, or the handler of what subprocess.run raised. Content goes to the
\* accept/edit prompt, anything else breaks out to the instruction prompt.
ParseResult(p) ==
    /\ pc[p] = "parse"
    /\ LET parsed == Parsed(result[p])
       IN  IF result[p].kind # "exit"
           THEN /\ pc' = [pc EXCEPT ![p] = ExceptionHandler(result[p].kind)]
                /\ UNCHANGED <<current_content, choiceLine>>
           ELSE IF parsed.kind = "content"
           THEN /\ current_content' = [current_content EXCEPT ![p] = parsed.content]
                /\ choiceLine' = [choiceLine EXCEPT ![p] = NoLine]
                /\ pc' = [pc EXCEPT ![p] = "choice"]
           ELSE /\ pc' = [pc EXCEPT ![p] = AfterBreak]
                /\ UNCHANGED <<current_content, choiceLine>>
    /\ UNCHANGED <<variant, sysBound, result, user_input, action, log_entry, saveCall, logs,
                   response, exitCode, trace, fileVars, runs, initLog>>

\* choice = input(...).strip().lower()
ChoiceNormalizeNoLower(line) == Strip(line)

ChoiceNormalize(line) == LowerStr(Strip(line))

\* if choice == 'edit'
WantsEdit(choice) == choice = <<"e","d","i","t">>

\* The accept/edit prompt: "edit" reopens the editor with the content,
\* anything else returns the content.
Choice(p) ==
    /\ pc[p] = "choice"
    /\ \E line \in ChoiceLines :
         /\ choiceLine' = [choiceLine EXCEPT ![p] = [read |-> TRUE, line |-> line]]
         /\ IF WantsEdit(ChoiceNormalize(line))
            THEN /\ pc' = [pc EXCEPT ![p] = "editor"]
                 /\ UNCHANGED user_input
            ELSE /\ pc' = [pc EXCEPT ![p] = "classify"]
                 /\ user_input' = [user_input EXCEPT ![p] = current_content[p]]
    /\ UNCHANGED <<variant, sysBound, result, current_content, action, log_entry, saveCall,
                   logs, response, exitCode, trace, fileVars, runs, initLog>>

\* ------------------------------------------------------------------ main
\* action, processed_input = process_input(user_input); get_user_input has
\* returned and its locals are gone.
ProcessInput(p) ==
    /\ pc[p] = "classify"
    /\ action' = [action EXCEPT ![p] = Classify(variant, user_input[p])]
    /\ pc' = [pc EXCEPT ![p] = "dispatch"]
    /\ sysBound' = [sysBound EXCEPT ![p] = FALSE]
    /\ result' = [result EXCEPT ![p] = NoResult]
    /\ choiceLine' = [choiceLine EXCEPT ![p] = NoLine]
    /\ UNCHANGED <<variant, user_input, current_content, log_entry, saveCall, logs, response,
                   exitCode, trace, fileVars, runs, initLog>>

\* Where main goes after show_help().
AfterHelpFallThrough == "save"

AfterHelp == "prompt"

\* if action == 'help': show_help(); continue
Dispatch(p) ==
    /\ pc[p] = "dispatch"
    /\ IF action[p] = "help"
       THEN pc' = [pc EXCEPT ![p] = AfterHelp]
       ELSE pc' = [pc EXCEPT ![p] = "save"]
    /\ UNCHANGED <<variant, sysBound, result, choiceLine, user_input, current_content, action, log_entry, saveCall, logs,
                   response, exitCode, trace, fileVars, runs, initLog>>

\* The calls of save_session_log so far: whether each wrote the log file, and
\* the entries they were called with. A call whose try block raised:
SaveFailed == [clean |-> FALSE, entries |-> <<>>]

\* A call that wrote the log file.
SaveDone(e) ==
    IF saveHist.clean
    THEN [clean |-> TRUE, entries |-> Append(saveHist.entries, e)]
    ELSE saveHist

\* save_session_log up to logs.append: the entry, the existence test, the
\* read and the parse.
SaveRead(p) ==
    /\ pc[p] = "save"
    /\ LET e == [timestamp |-> now, action |-> action[p], user_input |-> user_input[p]]
       IN  /\ log_entry' = [log_entry EXCEPT ![p] = e]
           /\ now' = now + 1
           /\ trace' = Event(p, "save")
           /\ \E readable \in IF logFile.kind = "absent" THEN {TRUE} ELSE BOOLEAN :
                LET got == ReadLog(variant, logFile)
                IN  /\ saveCall' = [saveCall EXCEPT ![p] =
                                        [NoCall EXCEPT !.before = logFile,
                                                       !.readFault = ~readable]]
                    /\ IF readable /\ got.ok
                       THEN /\ logs' = [logs EXCEPT ![p] = AppendEntry(got.logs, e)]
                            /\ pc' = [pc EXCEPT ![p] = "write"]
                            /\ UNCHANGED saveHist
                       ELSE /\ pc' = [pc EXCEPT ![p] = AfterSaveFailure(variant)]
                            /\ saveHist' = SaveFailed
                            /\ UNCHANGED logs
    /\ UNCHANGED <<variant, sysBound, result, choiceLine, user_input, current_content, action, response, exitCode,
                   logFile, backupFile, runs, initLog>>

\* What json.dump writes: the list the call read earlier, with its entry
\* appended; the file is not read again and not locked.
WrittenLogsReread(p) ==
    AppendEntry(IF logFile.kind = "array" THEN logFile.entries ELSE <<>>, log_entry[p])

WrittenLogs(p) == logs[p]

\* save_session_log: open(log_file, 'w') and json.dump(logs).
SaveWrite(p) ==
    /\ pc[p] = "write"
    /\ \E outcome \in WriteOutcomes :
         /\ logFile' = WriteResult(logFile, outcome, WrittenLogs(p))
         /\ saveCall' = [saveCall EXCEPT ![p].primaryWrites = @ + 1,
                                         ![p].writeFault = outcome # "ok"]
         /\ IF outcome = "ok"
            THEN /\ pc' = [pc EXCEPT ![p] = "respond"]
                 /\ saveHist' = SaveDone(log_entry[p])
            ELSE /\ pc' = [pc EXCEPT ![p] = AfterSaveFailure(variant)]
                 /\ saveHist' = SaveFailed
    /\ UNCHANGED <<variant, sysBound, result, choiceLine, user_input, current_content, action, log_entry, logs,
                   response, exitCode, trace, backupFile, now, runs, initLog>>

\* save_session_log of the continuous variant: the handler of a failed try
\* block writes [log_entry] to the backup file and swallows what that raises.
SaveBackup(p) ==
    /\ pc[p] = "backup"
    /\ \E outcome \in WriteOutcomes :
         /\ backupFile' = WriteResult(backupFile, outcome, <<log_entry[p]>>)
         /\ saveCall' = [saveCall EXCEPT ![p].backupWrites = @ + 1,
                                         ![p].backupFault = outcome # "ok"]
    /\ pc' = [pc EXCEPT ![p] = "respond"]
    /\ UNCHANGED <<variant, sysBound, result, choiceLine, user_input, current_content, action, log_entry, logs,
                   response, exitCode, trace, logFile, now, saveHist, runs, initLog>>

\* response = generate_response(action, processed_input)
Generate(p) ==
    /\ pc[p] = "respond"
    /\ response' = [response EXCEPT ![p] = GenerateResponse(variant, action[p], user_input[p])]
    /\ trace' = Event(p, "gen")
    /\ pc' = [pc EXCEPT ![p] = "print"]
    /\ UNCHANGED <<variant, sysBound, result, choiceLine, user_input, current_content, action, log_entry, saveCall, logs,
                   exitCode, fileVars, runs, initLog>>

\* Where main goes after the response block is printed.
AfterResponseLoop == "prompt"

AfterResponse == "return"

\* The five print calls of the response block, then break.
PrintResponse(p) ==
    /\ pc[p] = "print"
    /\ trace' = Event(p, "print")
    /\ pc' = [pc EXCEPT ![p] = AfterResponse]
    /\ UNCHANGED <<variant, sysBound, result, choiceLine, user_input, current_content, action, log_entry, saveCall, logs,
                   response, exitCode, fileVars, runs, initLog>>

\* The exit status of the interpreter when main returns.
ReturnStatus == 0

\* The argument of sys.exit in main's handler of Exception.
ErrorStatusAsReturn == ReturnStatus

ErrorStatus == 1

\* main returns and the interpreter exits with status 0.
Return(p) ==
    /\ pc[p] = "return"
    /\ pc' = [pc EXCEPT ![p] = "done"]
    /\ exitCode' = [exitCode EXCEPT ![p] = ReturnStatus]
    /\ trace' = Event(p, "end")
    /\ UNCHANGED <<variant, sysBound, result, choiceLine, user_input, current_content, action, log_entry, saveCall, logs,
                   response, fileVars, runs, initLog>>

\* main's handler of Exception: print the error, sys.exit(1).
MainExcept(p) ==
    /\ pc[p] = "raise"
    /\ pc' = [pc EXCEPT ![p] = "done"]
    /\ exitCode' = [exitCode EXCEPT ![p] = ErrorStatus]
    /\ UNCHANGED <<variant, sysBound, result, choiceLine, user_input, current_content, action, log_entry, saveCall, logs,
                   response, trace, fileVars, runs, initLog>>

\* The program is invoked again after it has ended.
Rerun(p) ==
    /\ pc[p] = "done"
    /\ runs < MaxRuns
    /\ runs' = runs + 1
    /\ Fresh(p)
    /\ UNCHANGED <<variant, fileVars, initLog>>

Step(p) ==
    \/ PrintBanner(p)
    \/ ReadLine(p)
    \/ KeyboardInterrupt(p)
    \/ EndOfInput(p)
    \/ PromptError(p)
    \/ RunEditor(p)
    \/ ParseResult(p)
    \/ Choice(p)
    \/ ProcessInput(p)
    \/ Dispatch(p)
    \/ SaveRead(p)
    \/ SaveWrite(p)
    \/ SaveBackup(p)
    \/ Generate(p)
    \/ PrintResponse(p)
    \/ Return(p)
    \/ MainExcept(p)

Next == \E p \in Procs : Step(p) \/ Rerun(p)

Spec == Init /\ [][Next]_vars

\* ------------------------------------------- process_input on its own
\* The pieces an instruction is put together from: finish keywords in both
\* cases, "help" in mixed case, word characters that make a larger token,
\* and separators.
Pieces ==
    { <<"d","o","n","e">>, <<"F","i","n","i","s","h">>, <<"e","n","d">>,
      <<"s","t","o","p">>, <<"H","e","L","p">>, <<"u","n">>, <<"e","d">>,
      <<"_">>, <<" ">>, <<".">> }

RECURSIVE Join(_)
Join(ps) == IF ps = <<>> THEN <<>> ELSE Head(ps) \o Join(Tail(ps))

\* What get_user_input can return: stripped and not empty.
ClassifyInputs ==
    {s \in {Join(ps) : ps \in UNION {[1..n -> Pieces] : n \in 1..MaxPieces}} :
        s # <<>> /\ Strip(s) = s}

\* get_user_input has returned an instruction.
InitClassify ==
    /\ variant \in Variants
    /\ pc = [p \in Procs |-> IF p = 1 THEN "classify" ELSE "idle"]
    /\ \E s \in ClassifyInputs :
         user_input = [p \in Procs |-> IF p = 1 THEN s ELSE NoString]
    /\ InitLocals
    /\ InitFilesystem

NextClassify == \E p \in Procs : ProcessInput(p)

SpecClassify == InitClassify /\ [][NextClassify]_vars

\* ---------------------------------------------------------- properties
IsPrefix(s, t) == Len(s) <= Len(t) /\ SubSeq(t, 1, Len(s)) = s

\* The steps of one invocation that answers an instruction.
Canon == <<"save", "gen", "print", "end">>

Printed(p) == \E i \in 1..Len(trace[p]) : trace[p][i] = "print"

EqualsIgnoringCase(a, b) ==
    /\ Len(a) = Len(b)
    /\ \A i \in 1..Len(a) : LowerChar(a[i]) = LowerChar(b[i])

\* w occurs in s from the 1-based position i on, letter case ignored.
OccursIgnoringCase(s, w, i) ==
    /\ i >= 1
    /\ i + Len(w) - 1 <= Len(s)
    /\ EqualsIgnoringCase(SubSeq(s, i, i + Len(w) - 1), w)

HasSubstring(s, w) == \E i \in 1..Len(s) : OccursIgnoringCase(s, w, i)

\* w occurs in s as a whole word: no word character touches the occurrence.
HasWholeWord(s, w) ==
    \E i \in 1..Len(s) :
        /\ OccursIgnoringCase(s, w, i)
        /\ (i = 1 \/ ~IsWordChar(s[i - 1]))
        /\ (i + Len(w) > Len(s) \/ ~IsWordChar(s[i + Len(w)]))

\* The finish keywords of a variant; the continuous variant has none.
KeywordsOf(v) ==
    CASE v = "single"     -> FinishKeywordsSingle
      [] v = "old"        -> FinishKeywordsOld
      [] v = "continuous" -> {}

\* The finish rule of a variant, stated on the instruction as typed.
MatchesFinishRule(v, s) ==
    CASE v = "single"     -> \E w \in FinishKeywordsSingle : HasSubstring(s, w)
      [] v = "old"        -> \E w \in FinishKeywordsOld : HasWholeWord(s, w)
      [] v = "continuous" -> FALSE

\* C1: in every invocation the steps of answering an instruction happen in
\* the order save_session_log, generate_response, print, end, each at most
\* once, only for an instruction classified finish or continue, and once the
\* response is printed the process only returns: it is at no prompt, in no
\* save and at no further response.
C1_ResponseOnceInOrder ==
    \A p \in Procs :
        /\ IsPrefix(trace[p], Canon)
        /\ trace[p] # <<>> => action[p] \in {"finish", "continue"}
        /\ Printed(p) => pc[p] \in {"return", "done"}
        /\ (Printed(p) /\ pc[p] = "done") => trace[p] = Canon

C1_Witness ==
    \E p \in Procs : pc[p] = "done" /\ trace[p] = Canon /\ action[p] = "continue"

\* C2: the step main takes on an instruction classified help leads back to
\* the prompt and changes neither the log file nor the backup file, and it
\* starts no save and prints no response.
C2_HelpFrame ==
    [][\A p \in Procs :
          (pc[p] = "dispatch" /\ action[p] = "help" /\ pc'[p] # pc[p]) =>
              /\ pc'[p] = "prompt"
              /\ logFile' = logFile
              /\ backupFile' = backupFile
              /\ trace'[p] = trace[p]
              /\ log_entry'[p] = log_entry[p]
              /\ response'[p] = response[p]]_vars

C2_Witness ==
    \E p \in Procs :
        /\ pc[p] = "prompt"
        /\ action[p] = "help"
        /\ trace[p] = <<>>
        /\ log_entry[p] = NoEntry

\* C3: every string get_user_input returns to process_input is non-empty
\* after trimming, whichever path it came by.
C3_ReturnedInputNonEmpty ==
    \A p \in Procs : pc[p] = "classify" => Strip(user_input[p]) # <<>>

C3_Witness ==
    \E p \in Procs :
        /\ pc[p] = "classify"
        /\ current_content[p] # <<>>
        /\ user_input[p] = current_content[p]

\* C4 as stated: in every variant an instruction with "done" or "finish" as
\* a whole word is classified finish.
C4_Original ==
    \A p \in Procs :
        (/\ pc[p] = "dispatch"
         /\ \E w \in FinishKeywordsOld : HasWholeWord(user_input[p], w))
        => action[p] = "finish"

\* C4 as amended: in the variants that have a finish rule (single, old) an
\* instruction with one of the variant's finish keywords as a whole word is
\* classified finish, whatever the punctuation around it and its letter case.
C4_FinishWholeWord ==
    \A p \in Procs :
        (/\ pc[p] = "dispatch"
         /\ variant \in {"single", "old"}
         /\ \E w \in KeywordsOf(variant) : HasWholeWord(user_input[p], w))
        => action[p] = "finish"

C4_Witness ==
    \E p \in Procs :
        /\ pc[p] = "dispatch"
        /\ variant = "old"
        /\ user_input[p] = <<"F","i","n","i","s","h",".">>
        /\ action[p] = "finish"

\* C5: an instruction that contains "help", in any letter case and also
\* inside a larger word, and that does not match the variant's finish rule,
\* is classified help.
C5_HelpSubstring ==
    \A p \in Procs :
        (/\ pc[p] = "dispatch"
         /\ HasSubstring(user_input[p], KwHelp)
         /\ ~MatchesFinishRule(variant, user_input[p]))
        => action[p] = "help"

C5_Witness ==
    \E p \in Procs :
        /\ pc[p] = "dispatch"
        /\ user_input[p] = <<"u","n","H","e","L","p","e","d">>
        /\ action[p] = "help"

\* C6 as stated: an instruction with no finish keyword of the variant as a
\* whole word and no "help" in it is classified continue.
C6_Original ==
    \A p \in Procs :
        (/\ pc[p] = "dispatch"
         /\ ~\E w \in KeywordsOf(variant) : HasWholeWord(user_input[p], w)
         /\ ~HasSubstring(user_input[p], KwHelp))
        => action[p] = "continue"

\* C6 as amended: an instruction that does not match the variant's finish
\* rule (old: a whole word; single: a substring) and has no "help" in it is
\* classified continue; a keyword inside a larger token keeps the old
\* variant at continue.
C6_ContinueOtherwise ==
    \A p \in Procs :
        (/\ pc[p] = "dispatch"
         /\ ~MatchesFinishRule(variant, user_input[p])
         /\ ~HasSubstring(user_input[p], KwHelp))
        => action[p] = "continue"

C6_Witness ==
    \E p \in Procs :
        /\ pc[p] = "dispatch"
        /\ variant = "old"
        /\ user_input[p] = <<"u","n","F","i","n","i","s","h","e","d">>
        /\ action[p] = "continue"

\* C7: from an absent log file, as long as every call of save_session_log
\* wrote the file, the file holds exactly the entries of the calls, in the
\* order of the calls; so it does after three of them.
C7_RoundTrip ==
    (initLog = AbsentFile /\ saveHist.clean) =>
        logFile = IF saveHist.entries = <<>> THEN AbsentFile
                  ELSE ArrayFile(saveHist.entries)

C7_Witness ==
    /\ initLog = AbsentFile
    /\ saveHist.clean
    /\ Len(saveHist.entries) = 3
    /\ logFile = ArrayFile(saveHist.entries)

\* C8 as stated: a call of save_session_log that finds text that is no JSON
\* in the log file, and meets no input/output error, returns with the log
\* file holding exactly the new entry.
C8_CorruptionRecovery ==
    \A p \in Procs :
        (/\ pc[p] = "respond"
         /\ saveCall[p].before.kind = "garbage"
         /\ ~saveCall[p].readFault
         /\ ~saveCall[p].writeFault)
        => logFile = ArrayFile(<<log_entry[p]>>)

\* C9: an invocation that has called save_session_log ends with status 0 and
\* with the response to the classified instruction printed, whatever the
\* call met; the failure never reaches main's exception handler.
C9_LoggingNeverAborts ==
    \A p \in Procs :
        log_entry[p] # NoEntry =>
            /\ pc[p] # "raise"
            /\ pc[p] = "done" =>
                  /\ exitCode[p] = 0
                  /\ Printed(p)
                  /\ response[p] = GenerateResponse(variant, action[p], user_input[p])

C9_Witness ==
    \E p \in Procs :
        /\ pc[p] = "done"
        /\ exitCode[p] = 0
        /\ Printed(p)
        /\ saveCall[p].writeFault
        /\ saveCall[p].backupFault

\* C10 as stated: a call of save_session_log whose write of the log file
\* failed returns after one write of the log file and exactly one write of
\* the backup file, which, when it succeeds, holds the new entry alone.
C10_OneFallback ==
    \A p \in Procs :
        (pc[p] = "respond" /\ saveCall[p].writeFault) =>
            /\ saveCall[p].primaryWrites = 1
            /\ saveCall[p].backupWrites = 1
            /\ ~saveCall[p].backupFault => backupFile = ArrayFile(<<log_entry[p]>>)

\* The call of save_session_log of process p has attempted its write of the
\* log file and has not returned to a later call.
WriteAttempted(p) ==
    pc[p] \in {"backup", "respond", "print", "return", "done"} /\ saveCall[p].primaryWrites = 1

\* C11 as stated: after a call of save_session_log that found a JSON array in
\* the log file and attempted its write, also a write that failed after the
\* file was opened and truncated, the log file is still a JSON array and the
\* entries stored before the call are still its first entries.
C11_NeverWorseThanMissingNewest ==
    \A p \in Procs :
        (WriteAttempted(p) /\ saveCall[p].before.kind = "array") =>
            /\ logFile.kind = "array"
            /\ IsPrefix(saveCall[p].before.entries, logFile.entries)

\* The call of save_session_log of process p has returned to main.
SaveReturned(p) ==
    pc[p] \in {"respond", "print", "return", "done"} /\ log_entry[p] # NoEntry

\* C12 as stated: a call of save_session_log that found a JSON array in the
\* log file leaves a JSON array whose first entries are the entries found, in
\* their order, followed by nothing or by the entry of the call.
C12_AppendOnly ==
    \A p \in Procs :
        (SaveReturned(p) /\ saveCall[p].before.kind = "array") =>
            /\ logFile.kind = "array"
            /\ \/ logFile.entries = saveCall[p].before.entries
               \/ logFile.entries = Append(saveCall[p].before.entries, log_entry[p])

\* The helper ended with status 0 after a submit of the text t: its output
\* is the block GUI_RESULT_START, the trimmed text, GUI_RESULT_END.
SubmittedBlock(r, t) ==
    /\ r.kind = "exit"
    /\ r.returncode = 0
    /\ SubmitPrints(t)
    /\ r.stdout = HelperSubmit(t)

\* C13 as stated: when the helper ends with status 0 and its output is the
\* block of a non-empty content, whatever text the content holds, the parse
\* goes to the accept/edit prompt with exactly the trimmed content.
C13_TextReturned ==
    [][\A p \in Procs : \A t \in EditorTexts :
          (pc[p] = "parse" /\ pc'[p] # "parse" /\ SubmittedBlock(result[p], t)) =>
              /\ pc'[p] = "choice"
              /\ current_content'[p] = Strip(t)]_vars

\* C14: when the helper's output is GUI_RESULT_CANCELLED, the parse breaks out
\* of the editing loop to the instruction prompt: no instruction is returned,
\* no content is kept, nothing is raised and the process does not end.
C14_CancelFallsBack ==
    [][\A p \in Procs :
          (/\ pc[p] = "parse" /\ pc'[p] # "parse"
           /\ result[p].kind = "exit"
           /\ Strip(result[p].stdout) = MarkerCancelled) =>
              /\ pc'[p] = "prompt"
              /\ user_input'[p] = user_input[p]
              /\ current_content'[p] = current_content[p]
              /\ exitCode'[p] = Running
              /\ trace'[p] = trace[p]]_vars

C14_Witness ==
    \E p \in Procs :
        /\ pc[p] = "prompt"
        /\ result[p].kind = "exit"
        /\ result[p].returncode = 0
        /\ result[p].stdout = HelperCancel
        /\ user_input[p] = NoString

\* The output holds neither the cancel marker nor both markers of a block.
NoProtocolOutput(out) ==
    /\ ~Contains(out, MarkerCancelled)
    /\ ~(Contains(out, MarkerStart) /\ Contains(out, MarkerEnd))

\* C15: when the helper ends with a status other than 0, also with a whole
\* block in its output, or prints neither the cancel marker nor a block, the
\* parse breaks out to the instruction prompt and nothing of that run becomes
\* the content or the instruction.
C15_FailureFallsBack ==
    [][\A p \in Procs :
          (/\ pc[p] = "parse" /\ pc'[p] # "parse"
           /\ result[p].kind = "exit"
           /\ (result[p].returncode # 0 \/ NoProtocolOutput(result[p].stdout))) =>
              /\ pc'[p] = "prompt"
              /\ user_input'[p] = user_input[p]
              /\ current_content'[p] = current_content[p]]_vars

C15_Witness ==
    \E p \in Procs :
        /\ pc[p] = "prompt"
        /\ result[p].kind = "exit"
        /\ result[p].returncode = 1
        /\ result[p].stdout = HelperSubmit(HelloWorld)
        /\ current_content[p] = NoString
        /\ user_input[p] = NoString

\* The output holds both block markers and no cancel marker, and there is
\* nothing but white space between the end of the first GUI_RESULT_START and
\* the first GUI_RESULT_END, or that GUI_RESULT_END comes first.
EmptyBlock(out) ==
    /\ ~Contains(out, MarkerCancelled)
    /\ Contains(out, MarkerStart)
    /\ Contains(out, MarkerEnd)
    /\ \A i \in 1..Len(out) :
          (Find(out, MarkerStart) + Len(MarkerStart) < i /\ i <= Find(out, MarkerEnd))
              => IsSpace(out[i])

\* C16: when the helper ends with status 0 and the content between the
\* markers is empty, the parse breaks out to the instruction prompt: the
\* accept/edit prompt is not reached and no content is kept.
C16_EmptyContentFallsBack ==
    [][\A p \in Procs :
          (/\ pc[p] = "parse" /\ pc'[p] # "parse"
           /\ result[p].kind = "exit"
           /\ result[p].returncode = 0
           /\ EmptyBlock(result[p].stdout)) =>
              /\ pc'[p] = "prompt"
              /\ user_input'[p] = user_input[p]
              /\ current_content'[p] = current_content[p]]_vars

C16_Witness ==
    \E p \in Procs :
        /\ pc[p] = "prompt"
        /\ result[p].kind = "exit"
        /\ result[p].returncode = 0
        /\ result[p].stdout = MarkerEnd \o Newline \o MarkerStart \o Newline
        /\ current_content[p] = NoString

\* Process p takes a line at the accept/edit prompt in this step.
ChoiceStep(p) == pc[p] = "choice" /\ choiceLine'[p].read

\* C17: once the content is shown, a line that is "edit" after trimming and
\* lower-casing reopens the editor and keeps the content, and the helper is
\* then started with exactly that content as its argument; any other line,
\* the empty one too, returns exactly the content as the instruction.
C17_EditOrAccept ==
    [][\A p \in Procs :
          /\ ChoiceStep(p) =>
                IF EqualsIgnoringCase(Strip(choiceLine'[p].line), <<"e","d","i","t">>)
                THEN /\ pc'[p] = "editor"
                     /\ current_content'[p] = current_content[p]
                     /\ current_content[p] # <<>>
                ELSE /\ pc'[p] = "classify"
                     /\ user_input'[p] = current_content[p]
          /\ (pc[p] = "editor" /\ pc'[p] = "parse") =>
                result'[p].arg = current_content[p]]_vars

\* The helper was reopened on an "edit" line and has ended again.
C17_Witness ==
    \E p \in Procs :
        /\ pc[p] = "parse"
        /\ choiceLine[p] = [read |-> TRUE, line |-> <<" ","E","d","i","t"," ">>]
        /\ result[p].arg = HelloWorld
        /\ current_content[p] = HelloWorld

\* The run of the helper failed: subprocess.run raised (the launch failed,
\* the time limit passed), the helper ended with a status other than 0, or
\* its output is neither a cancellation nor a block with content.
EditorFailed(r) ==
    \/ r.kind \in {"raise", "timeout"}
    \/ /\ r.kind = "exit"
       /\ \/ r.returncode # 0
          \/ NoProtocolOutput(r.stdout)
          \/ EmptyBlock(r.stdout)

\* C18: after a failed run of the helper the process is at the instruction
\* prompt again: it has not ended, nothing was raised to main, nothing was
\* logged and no response was generated or printed.
C18_EditorErrorsNotFatal ==
    [][\A p \in Procs :
          (pc[p] = "parse" /\ pc'[p] # "parse" /\ EditorFailed(result[p])) =>
              /\ pc'[p] = "prompt"
              /\ exitCode'[p] = Running
              /\ trace'[p] = <<>>
              /\ log_entry'[p] = NoEntry
              /\ response'[p] = NoResponse
              /\ logFile' = logFile
              /\ backupFile' = backupFile]_vars

C18_Witness ==
    \E p \in Procs :
        /\ variant = "old"
        /\ pc[p] = "prompt"
        /\ result[p].kind = "timeout"
        /\ exitCode[p] = Running
        /\ trace[p] = <<>>

\* Process p, waiting at the instruction prompt or at the accept/edit prompt,
\* gets a terminal interrupt or the end of its input in this step.
InterruptedAtPrompt(p) ==
    /\ pc[p] \in {"prompt", "choice"}
    /\ KeyboardInterrupt(p) \/ EndOfInput(p)

\* C19 as stated: a terminal interrupt or the end of input at either prompt
\* is, in the variants that can finish, an immediate finish instruction, and
\* in the continuous variant the immediate end of the process with nothing
\* logged and no response.
C19_InterruptPerVariant ==
    [][\A p \in Procs :
          InterruptedAtPrompt(p) =>
              IF variant = "continuous"
              THEN /\ pc'[p] \in {"done", "raise"}
                   /\ trace'[p] = <<>>
                   /\ log_entry'[p] = NoEntry
                   /\ logFile' = logFile
              ELSE /\ pc'[p] = "classify"
                   /\ user_input'[p] = InterruptInstruction
                   /\ Classify(variant, user_input'[p]) = "finish"]_vars

\* C20: a process ends with status 1 exactly when a failure has reached
\* main's handler, and then nothing was logged or printed as a response in
\* that run; every other end of a process, the return of main after the
\* response first of all, has status 0.
C20_ExitCodes ==
    [][\A p \in Procs :
          /\ (pc[p] = "raise" /\ pc'[p] # "raise") =>
                /\ pc'[p] = "done"
                /\ exitCode'[p] = 1
                /\ trace'[p] = <<>>
                /\ response'[p] = NoResponse
          /\ (pc[p] = "return" /\ pc'[p] # "return") =>
                /\ pc'[p] = "done"
                /\ exitCode'[p] = 0
          /\ (exitCode[p] = Running /\ exitCode'[p] # Running) =>
                /\ pc'[p] = "done"
                /\ exitCode'[p] = IF pc[p] = "raise" THEN 1 ELSE 0
          /\ (pc[p] # "done" /\ pc'[p] = "done") => exitCode'[p] \in {0, 1}]_vars

C20_Witness ==
    \E p \in Procs :
        /\ pc[p] = "done"
        /\ exitCode[p] = 1
        /\ trace[p] = <<>>
        /\ log_entry[p] = NoEntry

\* The response blocks process p has printed in its current run.
Blocks(p) == Cardinality({i \in 1..Len(trace[p]) : trace[p][i] = "print"})

\* C21 as stated: every run that has ended with status 0 has printed exactly
\* one response block.
C21_Original ==
    \A p \in Procs : (pc[p] = "done" /\ exitCode[p] = 0) => Blocks(p) = 1

\* C21 as amended: no run prints two response blocks; a run that has ended
\* with status 0 has either gone through save, generate, print and the return
\* of main, with exactly one block, or is a run of the continuous variant
\* that an interrupt handler ended with sys.exit(0), with no block and
\* nothing logged.
C21_OneBlockOrInterrupted ==
    \A p \in Procs :
        /\ Blocks(p) <= 1
        /\ (pc[p] = "done" /\ exitCode[p] = 0) =>
              \/ trace[p] = Canon /\ Blocks(p) = 1
              \/ /\ variant = "continuous"
                 /\ trace[p] = <<>>
                 /\ log_entry[p] = NoEntry
                 /\ response[p] = NoResponse

C21_Witness ==
    \E p \in Procs :
        /\ variant = "continuous"
        /\ pc[p] = "done"
        /\ exitCode[p] = 0
        /\ Blocks(p) = 0
        /\ sysBound[p]

\* The response holds the instruction s, formatted in right after the fixed
\* text t.
Embeds(r, t, s) ==
    \E i \in 1..(Len(r.parts) - 1) :
        r.parts[i] = Text(t) /\ r.parts[i + 1] = Input(s)

\* The entries save_session_log started from: those of the array it found,
\* none for an absent file or for text it read as an empty log.
EntriesRead(call) == IF call.before.kind = "array" THEN call.before.entries ELSE <<>>

\* The call of save_session_log of process p has written the log file.
WroteLog(p) ==
    SaveReturned(p) /\ saveCall[p].primaryWrites = 1 /\ ~saveCall[p].writeFault

\* C22 as stated: a run whose instruction is classified continue ends with
\* the instruction in its response, the log file grown by the entry of the
\* run, and status 0.
C22_Original ==
    \A p \in Procs :
        (action[p] = "continue" /\ pc[p] = "done" /\ SaveReturned(p)) =>
            /\ Embeds(response[p], "Please implement the following request:",
                      user_input[p])
            /\ logFile = ArrayFile(Append(EntriesRead(saveCall[p]), log_entry[p]))
            /\ exitCode[p] = 0

\* C22 as amended: in a run whose instruction is classified continue the
\* response asks to implement the request and holds the instruction as it was
\* typed; the entry of the run has the action "continue" and that
\* instruction, and when the call writes the log file, the file is the log
\* found plus that entry; the run ends with status 0 and one response block,
\* whether the log was written or not.
C22_EndToEndContinue ==
    \A p \in Procs :
        action[p] = "continue" =>
            /\ pc[p] \in {"print", "return", "done"} =>
                  /\ response[p].template = "continue"
                  /\ Embeds(response[p], "Please implement the following request:",
                            user_input[p])
            /\ SaveReturned(p) =>
                  /\ log_entry[p].action = "continue"
                  /\ log_entry[p].user_input = user_input[p]
            /\ WroteLog(p) =>
                  logFile = ArrayFile(Append(EntriesRead(saveCall[p]), log_entry[p]))
            /\ (pc[p] = "done" /\ SaveReturned(p)) =>
                  /\ exitCode[p] = 0
                  /\ Blocks(p) = 1

C22_Witness ==
    \E p \in Procs :
        /\ variant = "single"
        /\ pc[p] = "done"
        /\ action[p] = "continue"
        /\ user_input[p] = <<"F","i","x"," ","i","t">>
        /\ exitCode[p] = 0
        /\ Blocks(p) = 1
        /\ saveCall[p].before.kind = "absent"
        /\ logFile = ArrayFile(<<log_entry[p]>>)

\* The response holds the fixed text t.
HasText(r, t) == \E i \in 1..Len(r.parts) : r.parts[i] = Text(t)

\* Process p has classified the instruction "done".
ClassifiedDone(p) ==
    /\ user_input[p] = KwDone
    /\ pc[p] \in {"dispatch", "save", "write", "backup", "respond", "print", "return", "done"}

\* C23 as stated: in every variant a run on the instruction "done" is
\* classified finish, answered with the summary request that holds the
\* instruction, logged with the action "finish", and ends with status 0.
C23_Original ==
    \A p \in Procs :
        (ClassifiedDone(p) /\ pc[p] = "done") =>
            /\ action[p] = "finish"
            /\ response[p].template = "finish"
            /\ Embeds(response[p], "Final instruction: ", user_input[p])
            /\ logFile = ArrayFile(Append(EntriesRead(saveCall[p]), log_entry[p]))
            /\ exitCode[p] = 0

\* C23 as amended: in the variants with a finish rule (single, old) the
\* instruction "done" is classified finish, the response is the summary
\* request with the instruction after "Final instruction:", the entry of the
\* run has the action "finish", the log file, when the call writes it, is the
\* log found plus that entry, and the run ends with status 0 and one block.
\* The continuous variant classifies "done" as continue.
C23_EndToEndFinish ==
    \A p \in Procs :
        ClassifiedDone(p) =>
            IF variant = "continuous"
            THEN action[p] = "continue"
            ELSE /\ action[p] = "finish"
                 /\ pc[p] \in {"print", "return", "done"} =>
                       /\ response[p].template = "finish"
                       /\ Embeds(response[p], "Final instruction: ", user_input[p])
                       /\ HasText(response[p], "===== SUMMARY REQUEST =====")
                 /\ SaveReturned(p) =>
                       /\ log_entry[p].action = "finish"
                       /\ log_entry[p].user_input = user_input[p]
                 /\ WroteLog(p) =>
                       logFile = ArrayFile(Append(EntriesRead(saveCall[p]), log_entry[p]))
                 /\ pc[p] = "done" =>
                       /\ exitCode[p] = 0
                       /\ Blocks(p) = 1

C23_Witness ==
    \E p \in Procs :
        /\ variant = "old"
        /\ pc[p] = "done"
        /\ user_input[p] = KwDone
        /\ action[p] = "finish"
        /\ response[p].template = "finish"
        /\ exitCode[p] = 0
        /\ saveCall[p].before.kind = "array"
        /\ logFile = ArrayFile(Append(saveCall[p].before.entries, log_entry[p]))

\* ------------------------------------------ invocations side by side
\* The instructions of the invocations that run side by side.
ConcurrentInputs == { <<"F","i","x"," ","i","t">>, KwDone }

\* Every process is an invocation of its own whose get_user_input has
\* returned; they share the log directory, whose log file is a valid log.
InitConcurrent ==
    /\ variant \in Variants
    /\ pc = [p \in Procs |-> "classify"]
    /\ user_input \in [Procs -> ConcurrentInputs]
    /\ InitLocals
    /\ InitFilesystem
    /\ logFile = ArrayFile(<<>>)

\* The steps of main from process_input to the return of save_session_log,
\* of any of the processes.
NextConcurrent ==
    \E p \in Procs :
        \/ ProcessInput(p)
        \/ Dispatch(p)
        \/ SaveRead(p)
        \/ SaveWrite(p)
        \/ SaveBackup(p)

SpecConcurrent == InitConcurrent /\ [][NextConcurrent]_vars

\* Every call of save_session_log has returned after it found the same JSON
\* array in the log file and wrote the file.
AllWroteFromSameLog ==
    /\ \A p \in Procs : WroteLog(p) /\ saveCall[p].before.kind = "array"
    /\ \A p, q \in Procs : saveCall[p].before = saveCall[q].before

\* C24: when invocations side by side all read the log file before any of
\* them writes it, and all write it, the file holds the log they read and the
\* entry of one of them only: the entries of the others are lost.
C24_LostUpdate ==
    AllWroteFromSameLog =>
        \E p \in Procs :
            /\ logFile = ArrayFile(Append(saveCall[p].before.entries, log_entry[p]))
            /\ \A q \in Procs \ {p} :
                  \A i \in 1..Len(logFile.entries) : logFile.entries[i] # log_entry[q]

C24_Witness ==
    /\ AllWroteFromSameLog
    /\ \A p \in Procs : pc[p] = "respond"
    /\ Len(logFile.entries) = 1
    /\ \E p, q \in Procs : p # q /\ log_entry[p] # log_entry[q]

\* ------------------------------------------- answering an instruction
\* The steps of main once get_user_input has returned an instruction.
NextAnswer ==
    \E p \in Procs :
        \/ ProcessInput(p)
        \/ Dispatch(p)
        \/ SaveRead(p)
        \/ SaveWrite(p)
        \/ SaveBackup(p)
        \/ Generate(p)
        \/ PrintResponse(p)
        \/ Return(p)

SpecAnswer == InitClassify /\ [][NextAnswer]_vars

\* Process p has classified an instruction that matches the finish rule of
\* the variant and has "help" in it.
ClassifiedFinishAndHelp(p) ==
    /\ pc[p] # "classify"
    /\ MatchesFinishRule(variant, user_input[p])
    /\ HasSubstring(user_input[p], KwHelp)

\* C25: an instruction that matches the finish rule of the variant and also
\* has "help" in it is classified finish: main does not show the help and go
\* back to the prompt, it calls save_session_log, whose entry has the action
\* "finish" and the instruction, and the response is the summary request with
\* the instruction in it.
C25_FinishBeforeHelp ==
    \A p \in Procs :
        ClassifiedFinishAndHelp(p) =>
            /\ action[p] = "finish"
            /\ pc[p] \in {"dispatch", "save", "write", "respond", "print", "return", "done"}
            /\ SaveReturned(p) =>
                  /\ log_entry[p].action = "finish"
                  /\ log_entry[p].user_input = user_input[p]
            /\ pc[p] \in {"print", "return", "done"} =>
                  /\ response[p].template = "finish"
                  /\ Embeds(response[p], "Final instruction: ", user_input[p])
                  /\ HasText(response[p], "===== SUMMARY REQUEST =====")
            /\ pc[p] = "done" => trace[p] = Canon /\ exitCode[p] = 0

C25_Witness ==
    \E p \in Procs :
        /\ user_input[p] = <<"H","e","L","p"," ","F","i","n","i","s","h">>
        /\ pc[p] = "done"
        /\ response[p].template = "finish"
        /\ WroteLog(p)
        /\ logFile.entries[Len(logFile.entries)].action = "finish"

\* Some entry of the file has the action a.
StoresAction(file, a) == \E i \in 1..Len(file.entries) : file.entries[i].action = a

\* C26: in the continuous variant process_input returns help or continue for
\* every instruction, so no entry of a run and no entry of the log file or of
\* the backup file has the action "finish", and no response is the summary
\* request that ends a session.
C26_ContinuousNeverFinishes ==
    variant = "continuous" =>
        /\ \A p \in Procs :
              /\ action[p] \in {"none", "help", "continue"}
              /\ log_entry[p].action \in {"none", "continue"}
              /\ response[p].template \in {"none", "continue"}
              /\ ~HasText(response[p], "===== SUMMARY REQUEST =====")
        /\ ~StoresAction(logFile, "finish")
        /\ ~StoresAction(backupFile, "finish")

C26_Witness ==
    \E p \in Procs :
        /\ variant = "continuous"
        /\ user_input[p] = <<"F","i","n","i","s","h"," ","d","o","n","e">>
        /\ pc[p] = "done"
        /\ response[p].template = "continue"
        /\ WroteLog(p)
        /\ StoresAction(logFile, "continue")

\* The calls of save_session_log in the run of process p.
SaveCalls(p) == Cardinality({i \in 1..Len(trace[p]) : trace[p][i] = "save"})

\* The call of save_session_log of process p has written the backup file.
WroteBackup(p) ==
    SaveReturned(p) /\ saveCall[p].backupWrites = 1 /\ ~saveCall[p].backupFault

\* C27: a run calls save_session_log at most once, and the call writes its one
\* entry to the log file or to the backup file, never to both: the log file
\* it wrote is the log found plus the entry, the backup file it wrote is the
\* entry alone. No entry has the action "help": the action of every entry of
\* a run and of every stored entry is "continue" or "finish".
C27_AtMostOneEntry ==
    /\ \A p \in Procs :
          /\ SaveCalls(p) <= 1
          /\ log_entry[p].action \in {"none", "continue", "finish"}
          /\ saveCall[p].primaryWrites <= 1 /\ saveCall[p].backupWrites <= 1
          /\ ~(WroteLog(p) /\ WroteBackup(p))
          /\ WroteLog(p) =>
                logFile = ArrayFile(Append(EntriesRead(saveCall[p]), log_entry[p]))
          /\ WroteBackup(p) => backupFile = ArrayFile(<<log_entry[p]>>)
    /\ \A file \in {logFile, backupFile} :
          \A i \in 1..Len(file.entries) : file.entries[i].action \in {"continue", "finish"}

\* The second run of the continuous variant could not write the log file the
\* first run had written, and wrote its entry to the backup file.
C27_Witness ==
    \E p \in Procs :
        /\ runs = 2
        /\ pc[p] = "done"
        /\ WroteBackup(p)
        /\ Len(logFile.entries) = 1
        /\ Len(backupFile.entries) = 1
        /\ backupFile.entries[1] = log_entry[p]
        /\ logFile.entries[1] # log_entry[p]

\* ------------------------------------------- the helper and the parser
\* The pieces a text of the editor is put together from: a letter, white
\* space, and the parts of the three markers.
RoundTripPieces ==
    { <<"a">>, <<" ">>, <<"\n">>, <<"G","U","I","_","R","E","S","U","L","T","_">>,
      <<"S","T","A","R","T">>, <<"E","N","D">>, <<"C","A","N","C","E","L","L","E","D">> }

RoundTripTexts ==
    {Join(ps) : ps \in UNION {[1..n -> RoundTripPieces] : n \in 1..MaxPieces}}

\* The editing loop has been entered from the instruction prompt.
InitRoundTrip ==
    /\ variant \in {v \in Variants : HasEditor(v)}
    /\ pc = [p \in Procs |-> IF p = 1 THEN "editor" ELSE "idle"]
    /\ user_input = [p \in Procs |-> NoString]
    /\ InitLocals
    /\ InitFilesystem

\* The helper runs until the user submits a text that is not blank, or
\* cancels; it prints and ends with status 0.
HelperRun(p) ==
    /\ pc[p] = "editor"
    /\ \E stdout \in {HelperSubmit(t) : t \in {x \in RoundTripTexts : SubmitPrints(x)}}
                         \cup {HelperCancel} :
         result' = [result EXCEPT ![p] =
                       [kind |-> "exit", returncode |-> 0,
                        stdout |-> stdout, arg |-> current_content[p]]]
    /\ pc' = [pc EXCEPT ![p] = "parse"]
    /\ UNCHANGED <<variant, sysBound, choiceLine, user_input, current_content, action, log_entry,
                   saveCall, logs, response, exitCode, trace, fileVars, runs, initLog>>

NextRoundTrip == \E p \in Procs : HelperRun(p) \/ ParseResult(p)

SpecRoundTrip == InitRoundTrip /\ [][NextRoundTrip]_vars

\* The text holds none of the three markers.
HasNoMarker(t) ==
    /\ ~Contains(t, MarkerStart)
    /\ ~Contains(t, MarkerEnd)
    /\ ~Contains(t, MarkerCancelled)

\* What stands between "GUI_RESULT_START" and a line feed at the start of the
\* output and a line feed, "GUI_RESULT_END" and a line feed at its end.
BlockContent(out) ==
    Slice(out, Len(MarkerStart) + 1, Len(out) - Len(MarkerEnd) - 2)

\* The output is the block the helper's submit prints for a content that is
\* not empty and is trimmed.
IsSubmitBlock(out) ==
    /\ BlockContent(out) # <<>>
    /\ Strip(BlockContent(out)) = BlockContent(out)
    /\ out = MarkerStart \o Newline \o BlockContent(out) \o Newline \o MarkerEnd \o Newline

\* C28: when the helper has printed the block of a submit whose trimmed
\* content is not empty and holds none of the three markers, the parse goes
\* to the accept/edit prompt with exactly that content; when the helper has
\* printed the cancel marker, the parse breaks out to the instruction prompt
\* and keeps no content.
C28_MarkerRoundTrip ==
    [][\A p \in Procs :
          (pc[p] = "parse" /\ pc'[p] # "parse") =>
              /\ (/\ result[p].kind = "exit" /\ result[p].returncode = 0
                  /\ IsSubmitBlock(result[p].stdout)
                  /\ HasNoMarker(BlockContent(result[p].stdout))) =>
                        /\ pc'[p] = "choice"
                        /\ current_content'[p] = BlockContent(result[p].stdout)
              /\ (result[p].kind = "exit" /\ result[p].returncode = 0
                  /\ result[p].stdout = HelperCancel) =>
                        /\ pc'[p] = "prompt"
                        /\ current_content'[p] = current_content[p]]_vars

C28_Witness ==
    \E p \in Procs :
        /\ pc[p] = "choice"
        /\ result[p].stdout =
              HelperSubmit(<<" ","G","U","I","_","R","E","S","U","L","T","_","\n","a">>)
        /\ current_content[p] = <<"G","U","I","_","R","E","S","U","L","T","_","\n","a">>

\* The helper was cancelled: it ended with status 0 and the cancel marker.
EditorCancelled(r) ==
    r.kind = "exit" /\ r.returncode = 0 /\ Contains(r.stdout, MarkerCancelled)

\* C30: get_user_input returns from the editing loop only on a line at the
\* accept/edit prompt that is not "edit", and then returns the content the
\* parse of the most recent run of the helper offered (or, on an interrupt in
\* the variants that can finish, the string "finish"). When a run of the
\* helper that was started with an earlier content is cancelled or fails, the
\* loop is left for the instruction prompt and nothing is returned; what the
\* prompt returns afterwards is the line typed there, and an editing loop
\* entered from the prompt starts the helper with the empty content.
C30_OnlyAcceptedContent ==
    [][\A p \in Procs :
          /\ (pc[p] \in {"editor", "parse", "choice"} /\ pc'[p] = "classify") =>
                \/ /\ ChoiceStep(p)
                   /\ ~EqualsIgnoringCase(Strip(choiceLine'[p].line), <<"e","d","i","t">>)
                   /\ ParseEditor(result[p]) = [kind |-> "content", content |-> user_input'[p]]
                \/ /\ ~ChoiceStep(p)
                   /\ ~InterruptExits(variant)
                   /\ user_input'[p] = InterruptInstruction
          /\ (/\ pc[p] = "parse" /\ pc'[p] # "parse"
              /\ result[p].arg # <<>>
              /\ (EditorCancelled(result[p]) \/ EditorFailed(result[p]))) =>
                /\ pc'[p] = "prompt"
                /\ user_input'[p] = user_input[p]
                /\ user_input'[p] # result[p].arg
          /\ (pc[p] = "prompt" /\ pc'[p] = "classify") =>
                user_input'[p] \in {Strip(line) : line \in TermLines} \cup {InterruptInstruction}
          /\ (pc[p] = "prompt" /\ pc'[p] = "editor") => current_content'[p] = <<>>
          /\ (pc[p] = "editor" /\ pc'[p] = "parse") => result'[p].arg = current_content[p]]_vars

\* After the content was shown and "edit" was typed, the helper's next run
\* did not give content, and the helper was started again from the
\* instruction prompt: with the empty content.
C30_Witness ==
    \E p \in Procs :
        /\ pc[p] = "parse"
        /\ choiceLine[p] = [read |-> TRUE, line |-> <<" ","E","d","i","t"," ">>]
        /\ result[p].arg = <<>>
        /\ current_content[p] = <<>>

\* ------------------------------------------------------------ termination
\* The steps the interpreter takes on its own, with nothing to wait for.
ProgramStep(p) ==
    \/ PrintBanner(p)
    \/ ParseResult(p)
    \/ ProcessInput(p)
    \/ Dispatch(p)
    \/ SaveRead(p)
    \/ SaveWrite(p)
    \/ SaveBackup(p)
    \/ Generate(p)
    \/ PrintResponse(p)
    \/ Return(p)
    \/ MainExcept(p)

\* The user supplies an instruction that is not help: a line at the
\* instruction prompt that is not empty and no editor keyword, or a line at
\* the accept/edit prompt that accepts the content.
Supplies(p) ==
    /\ ReadLine(p) \/ Choice(p)
    /\ pc'[p] = "classify"
    /\ Classify(variant, user_input'[p]) # "help"

\* The interpreter goes on, every run of the helper ends, and the user
\* supplies an instruction whenever asked again and again.
Fairness ==
    \A p \in Procs :
        /\ WF_vars(ProgramStep(p))
        /\ WF_vars(RunEditor(p))
        /\ SF_vars(Supplies(p))

\* One invocation: the steps of its process up to its exit.
NextLive == \E p \in Procs : Step(p)

SpecLive == Init /\ [][NextLive]_vars /\ Fairness

\* Process p leaves the loop of main in this step: main returns, the process
\* exits in get_user_input, or an exception goes to main's handler.
LeavesLoop(p) == pc[p] \notin {"return", "raise", "done"} /\ pc'[p] \in {"return", "raise", "done"}

\* C29 as stated: a started run ends, and the loop of main is left only with
\* the response printed or on an interrupt or the end of input.
C29_Original ==
    /\ \A p \in Procs : (pc[p] = "start") ~> (pc[p] = "done")
    /\ [][\A p \in Procs :
             LeavesLoop(p) => (Printed(p)' \/ KeyboardInterrupt(p) \/ EndOfInput(p))]_vars

\* C29 as amended: a started run ends, and the loop of main is left with the
\* response printed, on an interrupt or the end of input, or on a failure of
\* the read at the instruction prompt, which goes to main's handler and ends
\* the run with status 1: no run ends with status 0 without a response or an
\* interrupt.
C29_Terminates ==
    /\ \A p \in Procs : (pc[p] = "start") ~> (pc[p] = "done")
    /\ [][\A p \in Procs :
             /\ LeavesLoop(p) =>
                   \/ Printed(p)' \/ KeyboardInterrupt(p) \/ EndOfInput(p)
                   \/ pc[p] = "prompt" /\ pc'[p] = "raise"
             /\ (pc[p] = "raise" /\ pc'[p] # "raise") =>
                   pc'[p] = "done" /\ exitCode'[p] = ErrorStatus]_vars

\* A run of the single-shot variant, which has no exit on an interrupt, has
\* ended with status 1 and without a response.
C29_Witness ==
    \E p \in Procs :
        /\ pc[p] = "done"
        /\ exitCode[p] = ErrorStatus
        /\ ~Printed(p)
        /\ variant = "single"

====
